---- MODULE Spec2Model ----
(***************************************************************************)
(* Model of the retrieval-augmented chat server of src/server.js: the      *)
(* document store, POST /api/docs (add) and POST /api/chat (moderation,    *)
(* retrieval, prompt composition, model call).  Each action is one         *)
(* synchronous run of a handler between two awaits.                        *)
(*                                                                         *)
(* Numbers: a similarity score num/sqrt(den2) is kept exactly as the pair  *)
(* (num, den2); floating-point rounding is not modelled.  Every embedding  *)
(* the service returns has the same dimension (the model name is fixed in  *)
(* both handlers), so no score is NaN.                                     *)
(* Strings: a string is a record (text, docs): literal text followed by    *)
(* the document blocks appended to it.                                     *)
(***************************************************************************)
EXTENDS Integers, Sequences, FiniteSets, TLC

VARIABLES OPENAI_KEY, documents, chat, add, list, clock, cos

vars == <<OPENAI_KEY, documents, chat, add, list, clock, cos>>

\* ------------------------------------------------------------------ bounds
MaxMsgs == 2
MaxDocs == 1
MaxRankDocs == 4
MaxStoreDocs == 2
MaxClock == 1
MaxCorruptDocs == 3
MaxPromptDocs == 2
MaxVecLen == 2

\* --------------------------------------------------------------- constants
\* slice(0, 3)
TopK == 3
\* score > 0.65, as the exact score 13/sqrt(400)
THRESHOLD == [num |-> 13, den2 |-> 400]

\* ----------------------------------------------------------------- strings
Str(t) == [text |-> t, docs |-> <<>>]
EmptyStr == Str("")
\* Role-tagged messages a caller can send
Message ==
  {[role |-> "system", content |-> Str("be brief")],
   [role |-> "user", content |-> Str("hi")],
   [role |-> "user", content |-> Str("yo")],
   [role |-> "assistant", content |-> Str("hello")]}

\* Sequences of length 0..n over S
RECURSIVE SeqsUpTo(_, _)
SeqsUpTo(S, n) ==
  IF n = 0 THEN {<<>>}
  ELSE LET shorter == SeqsUpTo(S, n - 1)
       IN shorter \cup {Append(s, x) : s \in {t \in shorter : Len(t) = n - 1}, x \in S}

\* req.body.messages: absent, a truthy non-array value, or an array of messages
Bodies ==
  {[kind |-> "undefined", items |-> <<>>], [kind |-> "object", items |-> <<>>]}
  \cup {[kind |-> "array", items |-> s] : s \in SeqsUpTo(Message, MaxMsgs)}

\* ----------------------------------------------------------------- vectors
\* Embeddings the service can return (one dimension for all of them).  Against
\* <<1, 0, 0, 0>> the vectors of RankPool score 1, 0.9, 0.7, 0.5 and 0.
EmbeddingPool == {<<1, 0, 0, 0>>, <<1, 1, 1, 1>>}
RankPool ==
  {<<1, 0, 0, 0>>, <<9, 3, 3, 1>>, <<7, 7, 1, 1>>, <<1, 1, 1, 1>>, <<0, 0, 0, 0>>}

RECURSIVE dotFrom(_, _, _)
dotFrom(a, b, i) ==
  IF i > Len(a) THEN 0 ELSE a[i] * b[i] + dotFrom(a, b, i + 1)

\* for (i < a.length) s += a[i] * b[i]
dot(a, b) == dotFrom(a, b, 1)

\* norm(a) squared: norm(a) = Math.sqrt(dot(a, a))
norm2(a) == dot(a, a)

\* The score NaN, as 0/0: no comparison with it is true
NaN == [num |-> 0, den2 |-> 0]
IsNaN(s) == s.den2 = 0

\* dot(a, b) reads b[i] for every index of a: past the end of b it is undefined,
\* a[i] * undefined is NaN and the sum stays NaN
dotIsNaN(a, b) == Len(a) > Len(b)

\* Variant: the dot product is divided by the first vector's norm twice
cosineSimLeftNorm(a, b) ==
  IF norm2(a) = 0 \/ norm2(b) = 0 THEN [num |-> 0, den2 |-> 1]
  ELSE IF dotIsNaN(a, b) THEN NaN
  ELSE [num |-> dot(a, b), den2 |-> norm2(a) * norm2(a)]

cosineSim(a, b) ==
  IF norm2(a) = 0 \/ norm2(b) = 0 THEN [num |-> 0, den2 |-> 1]
  ELSE IF dotIsNaN(a, b) THEN NaN
  ELSE [num |-> dot(a, b), den2 |-> norm2(a) * norm2(b)]

Abs(n) == IF n < 0 THEN -n ELSE n

\* s > t for exact scores: x |-> x*|x| is increasing, (n/sqrt d)*|n/sqrt d| = n|n|/d
ScoreGt(s, t) == s.num * Abs(s.num) * t.den2 > t.num * Abs(t.num) * s.den2

\* ------------------------------------------------------------------- store
NULL == "<null>"

\* The embedding column holds the JSON text of an array of numbers (what
\* JSON.stringify(embedding) writes), of a number or of a non-numeric string, text
\* that is not JSON ("garbage"), or SQL NULL ("null").
JSON_stringify(v) == [kind |-> "array", vec |-> v]

\* JSON.parse throws a SyntaxError on text that is not JSON; JSON.parse(null) is null
ParseOk(text) == text.kind # "garbage"
JSON_parse(text) == [kind |-> text.kind, vec |-> text.vec]

\* cosineSim(q, docEmb) throws a TypeError reading null.length
cosineSimThrows(docEmb) == docEmb.kind = "null"

\* cosineSim(q, docEmb) for a parsed value: a number has no length, so its norm is 0
\* and the score 0; the characters of a non-numeric string multiply to NaN
cosineSimOf(q, docEmb) ==
  IF docEmb.kind = "array" THEN cosineSim(q, docEmb.vec)
  ELSE IF docEmb.kind = "number" \/ norm2(q) = 0 THEN [num |-> 0, den2 |-> 1]
  ELSE NaN

\* INTEGER PRIMARY KEY: one more than the largest rowid (rows are never deleted)
lastInsertRowid(rows) == Len(rows) + 1

\* Variant: INSERT OR REPLACE keyed by the title, a row of the same title is overwritten
InsertOrReplaceRow(rows, title, content, embedding, now) ==
  LET same == {j \in 1..Len(rows) : rows[j].title = (IF title = "" THEN NULL ELSE title)}
      row(id) == [id |-> id,
                  title |-> IF title = "" THEN NULL ELSE title,
                  content |-> content,
                  embedding |-> JSON_stringify(embedding),
                  created_at |-> now]
  IN IF same = {} THEN Append(rows, row(lastInsertRowid(rows)))
     ELSE LET j == CHOOSE k \in same : TRUE
          IN [rows EXCEPT ![j] = row(rows[j].id)]

\* INSERT INTO documents (title, content, embedding) VALUES (title || null, content, JSON);
\* created_at DEFAULT CURRENT_TIMESTAMP is the clock, in whole seconds
InsertRow(rows, title, content, embedding, now) ==
  Append(rows, [id |-> lastInsertRowid(rows),
                title |-> IF title = "" THEN NULL ELSE title,
                content |-> content,
                embedding |-> JSON_stringify(embedding),
                created_at |-> now])

\* ----------------------------------------------------------------- ranking
\* for (const r of rows) try { scored.push({..., score}) } catch { skip }
RECURSIVE scoredFrom(_, _, _)
scoredFrom(rows, q, i) ==
  IF i > Len(rows) THEN <<>>
  ELSE LET r == rows[i]
           rest == scoredFrom(rows, q, i + 1)
       IN IF ParseOk(r.embedding) /\ ~cosineSimThrows(JSON_parse(r.embedding))
          THEN <<[id |-> r.id, title |-> r.title, content |-> r.content,
                  score |-> cosineSimOf(q, JSON_parse(r.embedding))]>> \o rest
          ELSE rest
Scored(rows, q) == scoredFrom(rows, q, 1)

\* Variant: an unstable sort, a later element goes before its equals
RECURSIVE insertBeforeEquals(_, _)
insertBeforeEquals(s, x) ==
  IF s = <<>> THEN <<x>>
  ELSE IF ~ScoreGt(Head(s).score, x.score) THEN <<x>> \o s
  ELSE <<Head(s)>> \o insertBeforeEquals(Tail(s), x)

\* Array.prototype.sort with (a, b) => b.score - a.score: stable, descending.
\* x goes before the first element it strictly exceeds.
RECURSIVE insertDesc(_, _)
insertDesc(s, x) ==
  IF s = <<>> THEN <<x>>
  ELSE IF ScoreGt(x.score, Head(s).score) THEN <<x>> \o s
  ELSE <<Head(s)>> \o insertDesc(Tail(s), x)
RECURSIVE sortFrom(_, _, _)
sortFrom(s, acc, i) ==
  IF i > Len(s) THEN acc ELSE sortFrom(s, insertDesc(acc, s[i]), i + 1)

\* Variant: the candidates are not sorted
SortNone(s) == s

SortDesc(s) == sortFrom(s, <<>>, 1)

\* scored.sort(...): with a NaN score the comparator returns NaN for some pairs and is
\* not a consistent comparator, and the order of the result is implementation-defined
SortOutcomes(scored) ==
  IF \E i \in 1..Len(scored) : IsNaN(scored[i].score)
  THEN {[i \in 1..Len(scored) |-> scored[p[i]]] : p \in Permutations(1..Len(scored))}
  ELSE {SortDesc(scored)}

Min(a, b) == IF a < b THEN a ELSE b

\* scored.slice(0, 3).filter(s => s.score > 0.65), of the sorted candidates
Top(sorted) ==
  LET firstK == SubSeq(sorted, 1, Min(TopK, Len(sorted)))
  IN SelectSeq(firstK, LAMBDA s : ScoreGt(s.score, THRESHOLD))

\* Variant: the blocks are numbered by the array index
ContextBlocksFromZero(top) ==
  [i \in 1..Len(top) |->
     [n |-> i - 1,
      title |-> IF top[i].title = NULL THEN "untitled" ELSE top[i].title,
      score |-> top[i].score,
      content |-> top[i].content]]

\* top.map((t, i) => `--- DOCUMENT ${i + 1} (${t.title ?? "untitled"}, score=...) ---\n${t.content}`)
\* The block keeps the exact score; its rendering to 3 decimals is not modelled.
ContextBlocks(top) ==
  [i \in 1..Len(top) |->
     [n |-> i,
      title |-> IF top[i].title = NULL THEN "untitled" ELSE top[i].title,
      score |-> top[i].score,
      content |-> top[i].content]]

\* systemPromptParts.join("\n\n"): the fixed template, then the retrieved blocks if any
SystemPrompt(contextText) == [text |-> "assistant-norms", docs |-> contextText]

\* Variant: the caller's messages are forwarded unfiltered
FinalMessagesUnfiltered(systemPrompt, messages) ==
  <<[role |-> "system", content |-> systemPrompt]>> \o messages

\* [{role: "system", content: systemPrompt}, ...messages.filter(m => m.role !== "system")]
FinalMessages(systemPrompt, messages) ==
  <<[role |-> "system", content |-> systemPrompt]>>
  \o SelectSeq(messages, LAMBDA m : m.role # "system")

\* Variant: the last message is taken whatever its role
LastContentOfLastMessage(messages) ==
  IF messages = <<>> THEN EmptyStr ELSE messages[Len(messages)].content

\* [...messages].reverse().find(m => m.role === "user")?.content ?? ""
LastContent(messages) ==
  LET users == {i \in 1..Len(messages) : messages[i].role = "user"}
  IN IF users = {} THEN EmptyStr
     ELSE messages[CHOOSE i \in users : \A j \in users : j <= i].content

\* !messages || !Array.isArray(messages)
InvalidMessages(body) == body.kind # "array"

\* -------------------------------------------------------- outcomes of calls
\* client.moderations.create: rejects, or resolves with results (possibly none)
ModOutcomes ==
  {[state |-> "threw", results |-> <<>>],
   [state |-> "returned", results |-> <<>>],
   [state |-> "returned", results |-> <<[flagged |-> TRUE]>>],
   [state |-> "returned", results |-> <<[flagged |-> FALSE]>>]}

\* client.embeddings.create: rejects, or resolves with data[0].embedding
EmbOutcomes ==
  {[threw |-> TRUE, vec |-> <<>>]} \cup {[threw |-> FALSE, vec |-> v] : v \in EmbeddingPool}

\* client.chat.completions.create: rejects, or resolves with choices (possibly none)
ModelOutcomes ==
  {[threw |-> TRUE, choices |-> <<>>],
   [threw |-> FALSE, choices |-> <<>>],
   [threw |-> FALSE, choices |-> <<Str("answer")>>]}

\* --------------------------------------------------------------- responses
ErrorResponse(status, error, details) ==
  [status |-> status, error |-> error, details |-> details, ok |-> FALSE,
   id |-> 0, reply |-> EmptyStr]
ReplyResponse(reply) ==
  [status |-> 200, error |-> "", details |-> FALSE, ok |-> FALSE, id |-> 0, reply |-> reply]
OkResponse(id) ==
  [status |-> 200, error |-> "", details |-> FALSE, ok |-> TRUE, id |-> id, reply |-> EmptyStr]

Call(api, input, messages) == [api |-> api, input |-> input, messages |-> messages]

\* ------------------------------------------------------- POST /api/chat
NoModeration == [state |-> "none", results |-> <<>>]

IdleChat ==
  [pc |-> "idle", body |-> [kind |-> "undefined", items |-> <<>>],
   lastContent |-> EmptyStr, moderation |-> NoModeration, retrieval |-> "none",
   reads |-> 0, scored |-> <<>>, top |-> <<>>, model |-> "none", calls |-> <<>>,
   responses |-> <<>>]

Respond(c, r) == [c EXCEPT !.pc = "done", !.responses = Append(@, r)]

\* Variant: the conversation is validated before the credential is looked at
ChatStartValidatesFirst(key, body) ==
  LET c == [IdleChat EXCEPT !.body = body]
  IN IF InvalidMessages(body)
     THEN Respond(c, ErrorResponse(400, "messages must be an array", FALSE))
     ELSE IF ~key
     THEN Respond(c, ErrorResponse(500, "Server not configured with OPENAI_API_KEY", FALSE))
     ELSE LET lastContent == LastContent(body.items)
          IN [c EXCEPT !.pc = "moderation", !.lastContent = lastContent,
                       !.calls = <<Call("moderations", lastContent, <<>>)>>]

\* Variant: lastUser.content without optional chaining throws when no message has role
\* user, and the outer catch answers
ChatStartNoOptionalChaining(key, body) ==
  LET c == [IdleChat EXCEPT !.body = body]
  IN IF ~key
     THEN Respond(c, ErrorResponse(500, "Server not configured with OPENAI_API_KEY", FALSE))
     ELSE IF InvalidMessages(body)
     THEN Respond(c, ErrorResponse(400, "messages must be an array", FALSE))
     ELSE IF \A i \in 1..Len(body.items) : body.items[i].role # "user"
     THEN Respond(c, ErrorResponse(500, "Internal server error", TRUE))
     ELSE LET lastContent == LastContent(body.items)
          IN [c EXCEPT !.pc = "moderation", !.lastContent = lastContent,
                       !.calls = <<Call("moderations", lastContent, <<>>)>>]

\* lines 106-123: credential check, validation, lastContent, moderation call issued
ChatStart(key, body) ==
  LET c == [IdleChat EXCEPT !.body = body]
  IN IF ~key
     THEN Respond(c, ErrorResponse(500, "Server not configured with OPENAI_API_KEY", FALSE))
     ELSE IF InvalidMessages(body)
     THEN Respond(c, ErrorResponse(400, "messages must be an array", FALSE))
     ELSE LET lastContent == LastContent(body.items)
          IN [c EXCEPT !.pc = "moderation", !.lastContent = lastContent,
                       !.calls = <<Call("moderations", lastContent, <<>>)>>]

\* Variant: reads mod.flagged, which the response does not carry
FlaggedAtTopLevel(mod) == FALSE

\* const categories = mod.results?.[0]; categories && categories.flagged
Flagged(mod) == Len(mod.results) > 0 /\ mod.results[1].flagged

\* Variant: no try/catch around the moderation call, a rejection reaches the outer catch
AfterModerationFatal(c, mod) ==
  LET m == [c EXCEPT !.moderation = mod]
  IN IF mod.state = "threw"
     THEN Respond(m, ErrorResponse(500, "Internal server error", TRUE))
     ELSE IF Flagged(mod)
     THEN Respond(m, ErrorResponse(403, "Content flagged by moderation", FALSE))
     ELSE [m EXCEPT !.pc = "embedding",
                    !.calls = Append(@, Call("embeddings", c.lastContent, <<>>))]

\* Variant: a moderation call that threw is issued once more
AfterModerationRetry(c, mod) ==
  LET m == [c EXCEPT !.moderation = mod]
  IN IF mod.state = "threw" /\ Len(c.calls) < 2
     THEN [c EXCEPT !.calls = Append(@, Call("moderations", c.lastContent, <<>>))]
     ELSE IF mod.state = "returned" /\ Flagged(mod)
     THEN Respond(m, ErrorResponse(403, "Content flagged by moderation", FALSE))
     ELSE [m EXCEPT !.pc = "embedding",
                    !.calls = Append(@, Call("embeddings", c.lastContent, <<>>))]

\* lines 124-139: moderation resolved or rejected; embedding call issued
AfterModeration(c, mod) ==
  LET m == [c EXCEPT !.moderation = mod]
  IN IF mod.state = "returned" /\ Flagged(mod)
     THEN Respond(m, ErrorResponse(403, "Content flagged by moderation", FALSE))
     ELSE [m EXCEPT !.pc = "embedding",
                    !.calls = Append(@, Call("embeddings", c.lastContent, <<>>))]

\* Variant: no try/catch around retrieval, a failure reaches the outer catch
AfterEmbeddingFatal(c, emb, rows, readThrows, sorted) ==
  LET top == IF emb.threw \/ readThrows THEN <<>> ELSE Top(sorted)
      finalMessages == FinalMessages(SystemPrompt(ContextBlocks(top)), c.body.items)
      r == [c EXCEPT !.retrieval = IF emb.threw THEN "embed_threw"
                                   ELSE IF readThrows THEN "read_threw" ELSE "ok",
                     !.reads = IF emb.threw THEN @ ELSE @ + 1,
                     !.scored = IF emb.threw \/ readThrows THEN <<>>
                                ELSE Scored(rows, emb.vec),
                     !.top = top]
  IN IF emb.threw \/ readThrows
     THEN Respond(r, ErrorResponse(500, "Internal server error", TRUE))
     ELSE [r EXCEPT !.pc = "model",
                    !.calls = Append(@, Call("chat", EmptyStr, finalMessages))]

\* The candidates of a retrieval, none when the embedding call or the read threw
Candidates(emb, rows, readThrows) ==
  IF emb.threw \/ readThrows THEN <<>> ELSE Scored(rows, emb.vec)

\* lines 140-191: retrieval (or its catch), prompt, final messages, model call issued;
\* sorted is the outcome of scored.sort
AfterEmbedding(c, emb, rows, readThrows, sorted) ==
  LET failed == emb.threw \/ readThrows
      scored == Candidates(emb, rows, readThrows)
      top == IF failed THEN <<>> ELSE Top(sorted)
      contextText == ContextBlocks(top)
      systemPrompt == SystemPrompt(contextText)
      finalMessages == FinalMessages(systemPrompt, c.body.items)
  IN [c EXCEPT !.pc = "model",
               !.retrieval = IF emb.threw THEN "embed_threw"
                             ELSE IF readThrows THEN "read_threw" ELSE "ok",
               !.reads = IF emb.threw THEN @ ELSE @ + 1,
               !.scored = scored,
               !.top = top,
               !.calls = Append(@, Call("chat", EmptyStr, finalMessages))]

\* Variant: the outer catch logs the error and sends nothing
AfterModelSilent(c, out) ==
  IF out.threw
  THEN [c EXCEPT !.pc = "done", !.model = "threw"]
  ELSE Respond([c EXCEPT !.model = "returned"],
               ReplyResponse(IF Len(out.choices) > 0 THEN out.choices[1] ELSE EmptyStr))

\* lines 193-198: chatResp.choices?.[0]?.message?.content ?? "", or the outer catch
AfterModel(c, out) ==
  IF out.threw
  THEN Respond([c EXCEPT !.model = "threw"], ErrorResponse(500, "Internal server error", TRUE))
  ELSE Respond([c EXCEPT !.model = "returned"],
               ReplyResponse(IF Len(out.choices) > 0 THEN out.choices[1] ELSE EmptyStr))

\* Chat requests share no state with one another: one request is followed, against
\* any number of adds before and during it.
ChatRequestFrom(bodies) ==
  /\ chat.pc = "idle"
  /\ \E body \in bodies : chat' = ChatStart(OPENAI_KEY, body)
  /\ UNCHANGED <<OPENAI_KEY, documents, add, list, clock, cos>>

ChatRequest == ChatRequestFrom(Bodies)

ChatModerationReturns ==
  /\ chat.pc = "moderation"
  /\ \E mod \in ModOutcomes : chat' = AfterModeration(chat, mod)
  /\ UNCHANGED <<OPENAI_KEY, documents, add, list, clock, cos>>

ChatEmbeddingReturns ==
  /\ chat.pc = "embedding"
  /\ \E emb \in EmbOutcomes, readThrows \in BOOLEAN :
       /\ emb.threw => ~readThrows
       /\ \E sorted \in SortOutcomes(Candidates(emb, documents, readThrows)) :
            chat' = AfterEmbedding(chat, emb, documents, readThrows, sorted)
  /\ UNCHANGED <<OPENAI_KEY, documents, add, list, clock, cos>>

ChatModelReturns ==
  /\ chat.pc = "model"
  /\ \E out \in ModelOutcomes : chat' = AfterModel(chat, out)
  /\ UNCHANGED <<OPENAI_KEY, documents, add, list, clock, cos>>

\* ------------------------------------------------------- POST /api/docs
AddTitles == {"", "t"}
AddContents ==
  {[kind |-> "undefined", text |-> ""], [kind |-> "number", text |-> "5"],
   [kind |-> "string", text |-> ""], [kind |-> "string", text |-> "doc"]}

\* embedding and insert record how the two steps of the request ended
IdleAdd ==
  [pc |-> "idle", title |-> "", content |-> [kind |-> "undefined", text |-> ""],
   embedding |-> "none", insert |-> "none", calls |-> <<>>, responses |-> <<>>]

\* Variant: only !content, the type is not checked
InvalidContentFalsyOnly(content) == content.kind = "undefined" \/ content.text = ""

\* !content || typeof content !== "string"
InvalidContent(content) == content.kind # "string" \/ content.text = ""

\* lines 72-81: validation, embedding call issued (the title is first used by the INSERT)
AddStart(title, content) ==
  LET a == [IdleAdd EXCEPT !.content = content]
  IN IF InvalidContent(content)
     THEN Respond(a, ErrorResponse(400, "content is required", FALSE))
     ELSE [a EXCEPT !.pc = "embedding", !.title = title,
                    !.calls = <<Call("embeddings", Str(content.text), <<>>)>>]

\* Variant: the ok response is sent before the INSERT has run
AddAfterEmbeddingOptimistic(a, emb, rows, insertThrows, now) ==
  LET e == [a EXCEPT !.embedding = IF emb.threw THEN "threw" ELSE "returned",
                     !.insert = IF emb.threw THEN "none"
                                ELSE IF insertThrows THEN "threw" ELSE "ok"]
  IN IF emb.threw
     THEN [add |-> Respond(e, ErrorResponse(500, "failed to add document", TRUE)),
           documents |-> rows]
     ELSE [add |-> Respond(e, OkResponse(lastInsertRowid(rows))),
           documents |-> IF insertThrows THEN rows
                         ELSE InsertRow(rows, a.title, a.content.text, emb.vec, now)]

\* Variant: the row is written in two statements, content first, and the second fails
AddAfterEmbeddingPartial(a, emb, rows, insertThrows, now) ==
  LET e == [a EXCEPT !.embedding = IF emb.threw THEN "threw" ELSE "returned",
                     !.insert = IF emb.threw THEN "none"
                                ELSE IF insertThrows THEN "threw" ELSE "ok"]
      row == InsertRow(rows, a.title, a.content.text, emb.vec, now)
  IN IF emb.threw
     THEN [add |-> Respond(e, ErrorResponse(500, "failed to add document", TRUE)),
           documents |-> rows]
     ELSE IF insertThrows
     THEN [add |-> Respond(e, ErrorResponse(500, "failed to add document", TRUE)),
           documents |-> [row EXCEPT ![Len(row)].embedding = [kind |-> "null", vec |-> <<>>]]]
     ELSE [add |-> Respond(e, OkResponse(lastInsertRowid(rows))),
           documents |-> row]

\* lines 82-89: INSERT and the ok response, or the catch
AddAfterEmbedding(a, emb, rows, insertThrows, now) ==
  LET e == [a EXCEPT !.embedding = IF emb.threw THEN "threw" ELSE "returned",
                     !.insert = IF emb.threw THEN "none"
                                ELSE IF insertThrows THEN "threw" ELSE "ok"]
  IN IF emb.threw \/ insertThrows
     THEN [add |-> Respond(e, ErrorResponse(500, "failed to add document", TRUE)),
           documents |-> rows]
     ELSE [add |-> Respond(e, OkResponse(lastInsertRowid(rows))),
           documents |-> InsertRow(rows, a.title, a.content.text, emb.vec, now)]

AddRequestFrom(titles, contents) ==
  /\ add.pc \in {"idle", "done"}
  /\ \E title \in titles, content \in contents :
       add' = AddStart(title, content)
  /\ UNCHANGED <<OPENAI_KEY, documents, chat, list, clock, cos>>

AddRequest == AddRequestFrom(AddTitles, AddContents)

\* max bounds the store
AddEmbeddingReturnsWith(outcomes, max) ==
  /\ add.pc = "embedding"
  /\ \E emb \in outcomes, insertThrows \in BOOLEAN :
       /\ emb.threw => ~insertThrows
       /\ emb.threw \/ insertThrows \/ Len(documents) < max
       /\ LET r == AddAfterEmbedding(add, emb, documents, insertThrows, clock)
          IN add' = r.add /\ documents' = r.documents
  /\ UNCHANGED <<OPENAI_KEY, chat, list, clock, cos>>

AddEmbeddingReturns == AddEmbeddingReturnsWith(EmbOutcomes, MaxDocs)

\* -------------------------------------------------------- GET /api/docs
IdleList == [pc |-> "idle", rows |-> <<>>, responses |-> <<>>]

DataResponse ==
  [status |-> 200, error |-> "", details |-> FALSE, ok |-> FALSE, id |-> 0, reply |-> EmptyStr]

\* A text of more than 800 characters, and its first 800 characters
LongText == "long text"
LongTextPrefix == "long text[1..800]"

\* substr(content, 1, 800)
substr800(content) == IF content = LongText THEN LongTextPrefix ELSE content

\* ORDER BY created_at DESC: the rows with later timestamps first; SQL leaves the
\* order of rows with equal timestamps open
ListOrders(rows) ==
  {[i \in 1..Len(rows) |-> rows[p[i]]] : p \in
     {q \in Permutations(1..Len(rows)) :
        \A i, j \in 1..Len(rows) :
          i < j => rows[q[i]].created_at >= rows[q[j]].created_at}}

\* lines 94-100: SELECT id, title, substr(content,1,800) as snippet, created_at
AfterList(ordered, throws) ==
  IF throws
  THEN Respond(IdleList, ErrorResponse(500, "failed to list documents", FALSE))
  ELSE Respond([IdleList EXCEPT !.rows =
                  [i \in 1..Len(ordered) |->
                     [id |-> ordered[i].id, title |-> ordered[i].title,
                      snippet |-> substr800(ordered[i].content),
                      created_at |-> ordered[i].created_at]]],
               DataResponse)

ListDocs ==
  /\ \E ordered \in ListOrders(documents), throws \in BOOLEAN :
       list' = AfterList(ordered, throws)
  /\ UNCHANGED <<OPENAI_KEY, documents, chat, add, clock, cos>>

\* CURRENT_TIMESTAMP advances by one second
Tick ==
  /\ clock < MaxClock
  /\ clock' = clock + 1
  /\ UNCHANGED <<OPENAI_KEY, documents, chat, add, list, cos>>

\* cosineSim applied to a pair of vectors, both ways
IdleCos == [pc |-> "idle", a |-> <<>>, b |-> <<>>,
            ab |-> [num |-> 0, den2 |-> 1], ba |-> [num |-> 0, den2 |-> 1]]

\* ------------------------------------------------------------ specification
\* The process exits at startup without a key in CI/production; in development
\* it runs without one.  The database file is new.
Init ==
  /\ OPENAI_KEY \in BOOLEAN
  /\ documents = <<>>
  /\ chat = IdleChat
  /\ add = IdleAdd
  /\ list = IdleList
  /\ clock = 0
  /\ cos = IdleCos

Next ==
  \/ ChatRequest
  \/ ChatModerationReturns
  \/ ChatEmbeddingReturns
  \/ ChatModelReturns
  \/ AddRequest
  \/ AddEmbeddingReturns

Spec == Init /\ [][Next]_vars

\* Every outbound call of the chat request eventually resolves or rejects, and the
\* handler's continuation then runs.
SpecFair ==
  /\ Spec
  /\ WF_vars(ChatModerationReturns)
  /\ WF_vars(ChatEmbeddingReturns)
  /\ WF_vars(ChatModelReturns)

\* ------------------------------------------------- retrieval on a filled store
\* Stores of up to n documents added earlier, embeddings drawn from RankPool
RECURSIVE RankStores(_)
RankStores(n) ==
  IF n = 0 THEN {<<>>}
  ELSE LET smaller == RankStores(n - 1)
       IN smaller \cup {InsertRow(s, "", "doc", v, 0) : s \in smaller, v \in RankPool}

\* A chat request that passed moderation and awaits its query embedding
RankChat ==
  AfterModeration(
    ChatStart(TRUE, [kind |-> "array",
                     items |-> <<[role |-> "user", content |-> Str("hi")]>>]),
    [state |-> "returned", results |-> <<[flagged |-> FALSE]>>])

InitRank ==
  /\ OPENAI_KEY = TRUE
  /\ documents \in RankStores(MaxRankDocs)
  /\ chat = RankChat
  /\ add = IdleAdd
  /\ list = IdleList
  /\ clock = 0
  /\ cos = IdleCos

RankEmbeddingReturns ==
  /\ chat.pc = "embedding"
  /\ \E v \in RankPool :
       \E sorted \in SortOutcomes(Scored(documents, v)) :
         chat' = AfterEmbedding(chat, [threw |-> FALSE, vec |-> v], documents, FALSE, sorted)
  /\ UNCHANGED <<OPENAI_KEY, documents, add, list, clock, cos>>

NextRank == RankEmbeddingReturns

SpecRank == InitRank /\ [][NextRank]_vars

\* ------------------------------------------------- cosineSim on its own
\* Vectors of up to MaxVecLen components
Components == {-1, 0, 1, 2}
Vectors == SeqsUpTo(Components, MaxVecLen)

InitCos ==
  /\ OPENAI_KEY = TRUE
  /\ documents = <<>>
  /\ chat = IdleChat
  /\ add = IdleAdd
  /\ list = IdleList
  /\ clock = 0
  /\ cos \in {[IdleCos EXCEPT !.a = a, !.b = b] : a \in Vectors, b \in Vectors}

\* cosineSim(a, b) and cosineSim(b, a)
CosineBothWays ==
  /\ cos.pc = "idle"
  /\ cos' = [cos EXCEPT !.pc = "done",
                        !.ab = cosineSim(cos.a, cos.b),
                        !.ba = cosineSim(cos.b, cos.a)]
  /\ UNCHANGED <<OPENAI_KEY, documents, chat, add, list, clock>>

NextCos == CosineBothWays

SpecCos == InitCos /\ [][NextCos]_vars

\* ------------------------------------ retrieval over titled and untitled rows
PromptPool == {<<1, 0, 0, 0>>, <<9, 3, 3, 1>>, <<1, 1, 1, 1>>}

RECURSIVE PromptStores(_)
PromptStores(n) ==
  IF n = 0 THEN {<<>>}
  ELSE LET smaller == PromptStores(n - 1)
       IN smaller \cup
          {InsertRow(s, t, c, v, 0) :
             s \in smaller, t \in AddTitles, c \in {"doc", LongText}, v \in PromptPool}

InitPrompt ==
  /\ OPENAI_KEY = TRUE
  /\ documents \in PromptStores(MaxPromptDocs)
  /\ chat = RankChat
  /\ add = IdleAdd
  /\ list = IdleList
  /\ clock = 0
  /\ cos = IdleCos

NextPrompt == ChatEmbeddingReturns \/ ChatModelReturns

SpecPrompt == InitPrompt /\ [][NextPrompt]_vars

\* --------------------------------------- retrieval over a store with bad rows
\* Rows whose embedding column was not written by this server: NULL, text that is not
\* JSON, JSON that is not an array. The arrays have the dimension of the query.
CorruptTexts ==
  {JSON_stringify(<<9, 3, 3, 1>>), JSON_stringify(<<7, 7, 1, 1>>),
   [kind |-> "null", vec |-> <<>>], [kind |-> "garbage", vec |-> <<>>],
   [kind |-> "number", vec |-> <<>>], [kind |-> "string", vec |-> <<>>]}

RECURSIVE CorruptStores(_)
CorruptStores(n) ==
  IF n = 0 THEN {<<>>}
  ELSE LET smaller == CorruptStores(n - 1)
       IN smaller \cup
          {[InsertRow(s, "", "doc", <<>>, 0) EXCEPT ![Len(s) + 1].embedding = t] :
             s \in smaller, t \in CorruptTexts}

InitCorrupt ==
  /\ OPENAI_KEY = TRUE
  /\ documents \in CorruptStores(MaxCorruptDocs)
  /\ chat = RankChat
  /\ add = IdleAdd
  /\ list = IdleList
  /\ clock = 0
  /\ cos = IdleCos

CorruptEmbeddingReturns ==
  /\ chat.pc = "embedding"
  /\ \E emb \in {[threw |-> FALSE, vec |-> <<1, 0, 0, 0>>]} :
       \E sorted \in SortOutcomes(Candidates(emb, documents, FALSE)) :
         chat' = AfterEmbedding(chat, emb, documents, FALSE, sorted)
  /\ UNCHANGED <<OPENAI_KEY, documents, add, list, clock, cos>>

NextCorrupt == CorruptEmbeddingReturns \/ ChatModelReturns

SpecCorrupt == InitCorrupt /\ [][NextCorrupt]_vars

\* ------------------------------------------- add, list and chat interleaved
\* One valid and one invalid add body, one conversation, one embedding; the clock runs.
StoreContents == {[kind |-> "string", text |-> ""], [kind |-> "string", text |-> "doc"]}
StoreEmbOutcomes ==
  {[threw |-> TRUE, vec |-> <<>>], [threw |-> FALSE, vec |-> <<1, 0, 0, 0>>]}
StoreBodies ==
  {[kind |-> "array", items |-> <<[role |-> "user", content |-> Str("hi")]>>]}

StoreAddRequest == AddRequestFrom({"t"}, StoreContents)
StoreAddEmbeddingReturns == AddEmbeddingReturnsWith(StoreEmbOutcomes, MaxStoreDocs)
StoreChatRequest == ChatRequestFrom(StoreBodies)

NextStore ==
  \/ StoreAddRequest
  \/ StoreAddEmbeddingReturns
  \/ ListDocs
  \/ Tick
  \/ StoreChatRequest
  \/ ChatModerationReturns
  \/ ChatEmbeddingReturns
  \/ ChatModelReturns

SpecStore == Init /\ [][NextStore]_vars

\* ================================================================== claims
Answered == chat.pc = "done" /\ Len(chat.responses) = 1
Response == chat.responses[1]
IsReply(r) == r.status = 200 /\ r.error = ""
CallsTo(api) == {i \in 1..Len(chat.calls) : chat.calls[i].api = api}
ModerationFlagged ==
  /\ chat.moderation.state = "returned"
  /\ Len(chat.moderation.results) >= 1
  /\ chat.moderation.results[1].flagged
RetrievalFailed == chat.retrieval \in {"embed_threw", "read_threw"}

\* C1: whenever the moderation call has returned a result marked flagged, the
\* request has been answered with status 403 and no chat-completion call was issued.
C1_FlaggedIsForbidden ==
  ModerationFlagged =>
    /\ Answered
    /\ Response.status = 403
    /\ CallsTo("chat") = {}

C1_Witness ==
  /\ ModerationFlagged
  /\ Answered
  /\ Response.status = 403
  /\ Len(chat.body.items) = 2

\* C2: whenever the retrieval step has failed (embedding call threw or store read
\* threw), the model call has been issued with a system prompt that carries no
\* retrieved-document block, and if the model call returned the answer is a reply.
C2_RetrievalFailureDegrades ==
  RetrievalFailed =>
    /\ chat.pc \in {"model", "done"}
    /\ Len(chat.calls) = 3
    /\ chat.calls[3].api = "chat"
    /\ chat.calls[3].messages[1].role = "system"
    /\ chat.calls[3].messages[1].content.docs = <<>>
    /\ chat.model = "returned" => Answered /\ IsReply(Response)

C2_Witness ==
  /\ chat.retrieval = "read_threw"
  /\ Len(documents) >= 1
  /\ chat.model = "returned"
  /\ Answered
  /\ IsReply(Response)

\* C3: whenever the moderation call itself has thrown, the request was not
\* rejected: the embedding call was issued with the same content as after a clean
\* moderation result, the model call follows retrieval, and the only possible
\* answers are the reply or the model call's failure.
C3_ModerationFailureContinues ==
  chat.moderation.state = "threw" =>
    /\ chat.pc \in {"embedding", "model", "done"}
    /\ Len(chat.calls) >= 2
    /\ chat.calls[2] = Call("embeddings", chat.lastContent, <<>>)
    /\ chat.pc \in {"model", "done"} =>
         /\ chat.retrieval # "none"
         /\ Len(chat.calls) = 3
         /\ chat.calls[3].api = "chat"
    /\ chat.pc = "done" =>
         /\ chat.model # "none"
         /\ Len(chat.responses) = 1
         /\ chat.model = "returned" => IsReply(Response)
         /\ chat.model = "threw" => Response.status = 500

C3_Witness ==
  /\ chat.moderation.state = "threw"
  /\ chat.retrieval = "ok"
  /\ chat.top # <<>>
  /\ Answered
  /\ IsReply(Response)

\* Step 1 of the pipeline as the specification words it: the conversation is not a
\* non-empty sequence of messages
ConversationInvalid == chat.body.kind # "array" \/ chat.body.items = <<>>

\* C4 as stated: an error response only after validation failure, moderation
\* rejection or failure of the model call.
C4_ErrorOnlyInThreeCases ==
  (Answered /\ ~IsReply(Response)) =>
    \/ ConversationInvalid
    \/ ModerationFlagged
    \/ chat.model = "threw"

\* C4 amended: an error response only when the credential is missing, or after
\* validation failure, moderation rejection or failure of the model call; when
\* none of the four holds the answer is the reply, whatever moderation and
\* retrieval did.
C4_ErrorOnlyInFourCases ==
  Answered =>
    /\ ~IsReply(Response) =>
         \/ ~OPENAI_KEY
         \/ ConversationInvalid
         \/ ModerationFlagged
         \/ chat.model = "threw"
    /\ (OPENAI_KEY /\ ~ConversationInvalid /\ ~ModerationFlagged /\ chat.model # "threw")
         => IsReply(Response)

C4_Witness ==
  /\ Answered
  /\ ~OPENAI_KEY
  /\ ~ConversationInvalid
  /\ Response.status = 500

\* C5 as stated: with the credential configured, a request whose conversation is
\* missing, not an array or an empty array is answered 400 and issues no call.
C5_EmptyConversationRejected ==
  (chat.pc # "idle" /\ OPENAI_KEY /\ ConversationInvalid) =>
    /\ Answered
    /\ Response.status = 400
    /\ chat.calls = <<>>

\* -------------------------------------------------------------- ranking
RetrievalDone == chat.pc \in {"model", "done"} /\ chat.retrieval = "ok"

\* The score equals p/q (p, q > 0)
ScoreIs(s, p, q) == s.num > 0 /\ s.num * s.num * q * q = p * p * s.den2

AboveThreshold(s) == s.num > 0 /\ 400 * s.num * s.num > 169 * s.den2

\* s1 >= s2 as numbers
AtLeast(s1, s2) ==
  s1.num * Abs(s1.num) * s2.den2 >= s2.num * Abs(s2.num) * s1.den2

\* C6: the selected matches are at most 3, each scores strictly above 0.65, and
\* they are in non-increasing score order; three candidates scoring 0.9, 0.7 and
\* 0.5 in storage order select exactly the first two, in that order.
C6_TopBoundedAboveSorted ==
  RetrievalDone =>
    /\ Len(chat.top) <= 3
    /\ \A i \in 1..Len(chat.top) : AboveThreshold(chat.top[i].score)
    /\ \A i, j \in 1..Len(chat.top) :
         i < j => AtLeast(chat.top[i].score, chat.top[j].score)
    /\ (/\ Len(chat.scored) = 3
        /\ ScoreIs(chat.scored[1].score, 9, 10)
        /\ ScoreIs(chat.scored[2].score, 7, 10)
        /\ ScoreIs(chat.scored[3].score, 5, 10))
         => chat.top = <<chat.scored[1], chat.scored[2]>>

\* the scores 0.9, 0.7, 0.5 in storage order
C6_Witness ==
  /\ RetrievalDone
  /\ Len(chat.scored) = 3
  /\ ScoreIs(chat.scored[1].score, 9, 10)
  /\ ScoreIs(chat.scored[2].score, 7, 10)
  /\ ScoreIs(chat.scored[3].score, 5, 10)
  /\ Len(chat.top) = 2
  /\ chat.top[1].id = 1
  /\ chat.top[2].id = 2

\* Reference ranking: the permutation that puts higher scores first and, among
\* equal scores, the earlier stored first; then the first K entries above T.
RefBefore(s, a, b) ==
  \/ ~AtLeast(s[b].score, s[a].score)
  \/ (AtLeast(s[a].score, s[b].score) /\ AtLeast(s[b].score, s[a].score) /\ a < b)
RefOrder(s) ==
  CHOOSE p \in Permutations(1..Len(s)) :
    \A i, j \in 1..Len(s) : i < j => RefBefore(s, p[i], p[j])
RefSorted(s) == [i \in 1..Len(s) |-> s[RefOrder(s)[i]]]
RefResult(s) ==
  LET above == SelectSeq(RefSorted(s), LAMBDA e : AboveThreshold(e.score))
  IN SubSeq(above, 1, IF Len(above) < 3 THEN Len(above) ELSE 3)

\* C7: the selected matches equal the reference result (stable descending sort,
\* then the first 3 entries strictly above 0.65) for every stored collection.
C7_TopEqualsReference ==
  RetrievalDone => chat.top = RefResult(chat.scored)

\* four candidates above the threshold, the two best stored last and tied
C7_Witness ==
  /\ RetrievalDone
  /\ Len(chat.scored) = 4
  /\ \A i \in 1..4 : AboveThreshold(chat.scored[i].score)
  /\ ScoreIs(chat.scored[1].score, 7, 10)
  /\ ScoreIs(chat.scored[2].score, 7, 10)
  /\ ScoreIs(chat.scored[3].score, 9, 10)
  /\ ScoreIs(chat.scored[4].score, 9, 10)
  /\ Len(chat.top) = 3
  /\ chat.top[1].id = 3
  /\ chat.top[2].id = 4
  /\ chat.top[3].id = 1

\* ------------------------------------------------------- message assembly
\* The messages of s whose role is not system, in order
RECURSIVE WithoutSystem(_)
WithoutSystem(s) ==
  IF s = <<>> THEN <<>>
  ELSE IF s[Len(s)].role = "system" THEN WithoutSystem(SubSeq(s, 1, Len(s) - 1))
  ELSE Append(WithoutSystem(SubSeq(s, 1, Len(s) - 1)), s[Len(s)])

\* C8: the message list of the model call is one composed system message first,
\* then exactly the caller's non-system messages in their original order.
C8_FinalMessages ==
  \A k \in CallsTo("chat") :
    LET sent == chat.calls[k].messages
    IN /\ Len(sent) >= 1
       /\ sent[1].role = "system"
       /\ sent[1].content.text = "assistant-norms"
       /\ \A i \in 2..Len(sent) : sent[i].role # "system"
       /\ Tail(sent) = WithoutSystem(chat.body.items)

C8_Witness ==
  /\ CallsTo("chat") # {}
  /\ Len(chat.body.items) = 2
  /\ chat.body.items[1].role = "user"
  /\ chat.body.items[2].role = "system"
  /\ Len(chat.calls[3].messages) = 2

\* ------------------------------------------------------ moderation input
NoUserMessage ==
  chat.body.kind = "array" /\ \A i \in 1..Len(chat.body.items) : chat.body.items[i].role # "user"
\* c is the content of the most recent user message of the conversation
IsLatestUserContent(c) ==
  \E i \in 1..Len(chat.body.items) :
    /\ chat.body.items[i].role = "user"
    /\ chat.body.items[i].content = c
    /\ \A j \in (i + 1)..Len(chat.body.items) : chat.body.items[j].role # "user"
InputsAre(c) ==
  \A k \in CallsTo("moderations") \cup CallsTo("embeddings") : chat.calls[k].input = c

\* C9: a request without any user message sends empty content to moderation and
\* retrieval and is answered with the reply when the model call returns; with user
\* messages the content sent is that of the most recent one.
C9_LastUserContent ==
  (OPENAI_KEY /\ chat.pc # "idle" /\ chat.body.kind = "array") =>
    /\ CallsTo("moderations") = {1}
    /\ NoUserMessage =>
         /\ InputsAre(EmptyStr)
         /\ ~(Answered /\ Response.status = 400)
         /\ chat.model = "returned" => Answered /\ IsReply(Response)
    /\ ~NoUserMessage =>
         \E i \in 1..Len(chat.body.items) :
           IsLatestUserContent(chat.body.items[i].content)
             /\ InputsAre(chat.body.items[i].content)

C9_Witness ==
  /\ OPENAI_KEY
  /\ NoUserMessage
  /\ Len(chat.body.items) = 1
  /\ CallsTo("embeddings") = {2}
  /\ chat.calls[2].input = EmptyStr
  /\ chat.model = "returned"
  /\ Answered
  /\ IsReply(Response)

\* ---------------------------------------------------------------- add
ContentEmptyOrNotText ==
  add.content.kind \in {"undefined", "number"} \/ add.content.text = ""

ListAnswered == list.pc = "done" /\ list.responses[1].status = 200

\* C11: a list that starts after adds have completed returns the documents in
\* descending creation order: a document added later (it has the greater id) precedes
\* every document added earlier, also when two adds received the same creation timestamp.
C11_ListNewestFirst ==
  ListAnswered =>
    \A i, j \in 1..Len(list.rows) : i < j => list.rows[i].id > list.rows[j].id

\* ---- C12
RowWhole(r) ==
  /\ r.content # ""
  /\ r.embedding.kind = "array"
  /\ r.embedding.vec # <<>>

StoredWhole(id) ==
  \E j \in 1..Len(documents) : documents[j].id = id /\ RowWhole(documents[j])

ReadsSeeWholeRows ==
  /\ \A j \in 1..Len(documents) : RowWhole(documents[j])
  /\ \A i \in 1..Len(list.rows) : StoredWhole(list.rows[i].id)
  /\ \A i \in 1..Len(chat.scored) : StoredWhole(chat.scored[i].id)

FailedAddLeavesNoRow ==
  (add.pc = "embedding" /\ add'.pc = "done" /\ add'.responses[1].status # 200)
    => documents' = documents

\* C12: in every interleaving of adds with list and chat requests, every row a read
\* observes has its content and its embedding together, and an add whose embedding
\* returned but whose insert failed leaves the store as it was.
C12_NoPartialRow == []ReadsSeeWholeRows /\ [][FailedAddLeavesNoRow]_vars

C12_Witness ==
  /\ add.pc = "done" /\ add.embedding = "returned" /\ add.insert = "threw"
  /\ Len(documents) = 1
  /\ ListAnswered /\ Len(list.rows) = 1
  /\ chat.pc = "model" /\ Len(chat.scored) = 1

\* ---- C13
\* C13: on a server without an API credential every chat request, whatever its body,
\* is answered 500 at once and no moderation, embedding or model call is issued for it.
C13_NoCredentialNoCalls ==
  (~OPENAI_KEY /\ chat.pc # "idle") =>
    /\ Answered
    /\ Response.status = 500
    /\ chat.calls = <<>>

C13_Witness ==
  /\ ~OPENAI_KEY
  /\ Answered
  /\ chat.body.kind = "undefined"

C13_WitnessValidBody ==
  /\ ~OPENAI_KEY
  /\ Answered
  /\ chat.body.kind = "array"
  /\ \E i \in 1..Len(chat.body.items) : chat.body.items[i].role = "user"

\* ---- C14
WellFormed(text) == text.kind = "array"
WellFormedIds ==
  {documents[j].id : j \in {k \in 1..Len(documents) : WellFormed(documents[k].embedding)}}
RetrievalRead == chat.pc \in {"model", "done"} /\ chat.reads = 1

\* C14: a stored row whose embedding is malformed or missing is skipped on its own:
\* the retrieval does not fail, the candidates are exactly the rows with a well-formed
\* embedding, and these are ranked as if the other rows were not in the store.
C14_MalformedRowSkipped ==
  RetrievalRead =>
    /\ chat.retrieval = "ok"
    /\ {chat.scored[i].id : i \in 1..Len(chat.scored)} = WellFormedIds
    /\ chat.top =
         RefResult(SelectSeq(chat.scored, LAMBDA e : e.id \in WellFormedIds))

\* The part that holds: a NULL or unparseable embedding is skipped, the retrieval succeeds
C14_NullAndGarbageSkipped ==
  RetrievalRead =>
    /\ chat.retrieval = "ok"
    /\ \A j \in 1..Len(documents) :
         documents[j].embedding.kind \in {"null", "garbage"} =>
           \A i \in 1..Len(chat.scored) : chat.scored[i].id # documents[j].id
    /\ \A j \in 1..Len(documents) :
         WellFormed(documents[j].embedding) =>
           \E i \in 1..Len(chat.scored) : chat.scored[i].id = documents[j].id

\* a JSON number as embedding stays among the candidates
C14_NumberKept ==
  ~(/\ RetrievalRead
    /\ \E i \in 1..Len(chat.scored) : chat.scored[i].id \notin WellFormedIds)

\* a better match stored after a JSON string is ranked below a worse one
C14_RankingDisturbed ==
  ~(/\ RetrievalRead
    /\ Len(chat.top) = 2
    /\ ScoreIs(chat.top[1].score, 7, 10)
    /\ ScoreIs(chat.top[2].score, 9, 10))

\* ---- C15
ModelCallIssued ==
  chat.calls # <<>> /\ chat.calls[Len(chat.calls)].api = "chat"
\* the system prompt sent to the model
SentPrompt == chat.calls[Len(chat.calls)].messages[1].content
StoredContent(id) ==
  documents[CHOOSE j \in 1..Len(documents) : documents[j].id = id].content
StoredTitle(id) ==
  documents[CHOOSE j \in 1..Len(documents) : documents[j].id = id].title

\* C15: the system prompt sent to the model has a documents section exactly when the
\* retrieval selected a match; the section has one block per selected match, in rank
\* order, numbered from 1, with the document's title ("untitled" when it has none) and
\* its full content.
C15_PromptBlocks ==
  ModelCallIssued =>
    /\ (SentPrompt.docs # <<>>) <=> (chat.top # <<>>)
    /\ Len(SentPrompt.docs) = Len(chat.top)
    /\ \A i \in 1..Len(chat.top) :
         /\ SentPrompt.docs[i].n = i
         /\ SentPrompt.docs[i].title =
              IF StoredTitle(chat.top[i].id) = NULL THEN "untitled"
              ELSE StoredTitle(chat.top[i].id)
         /\ SentPrompt.docs[i].content = StoredContent(chat.top[i].id)

\* two matches: the better one stored second, untitled and long; the other titled
C15_Witness ==
  /\ ModelCallIssued
  /\ Len(chat.top) = 2
  /\ chat.top[1].id = 2 /\ chat.top[2].id = 1
  /\ SentPrompt.docs[1].title = "untitled" /\ SentPrompt.docs[1].content = LongText
  /\ SentPrompt.docs[2].title = "t"

C15_WitnessNoMatch ==
  /\ ModelCallIssued
  /\ chat.retrieval = "ok" /\ chat.scored # <<>>
  /\ SentPrompt.docs = <<>>

\* ---- C16
\* s === t for scores: NaN equals nothing, itself included
ScoreEq(s, t) ==
  /\ ~IsNaN(s) /\ ~IsNaN(t)
  /\ s.num * Abs(s.num) * t.den2 = t.num * Abs(t.num) * s.den2

\* C16 as stated: cosineSim(a, b) equals cosineSim(b, a) for all pairs of vectors,
\* pairs of different lengths included.
C16_Symmetric ==
  cos.pc = "done" => ScoreEq(cos.ab, cos.ba)

\* C16, amended: cosineSim(a, b) equals cosineSim(b, a) for all pairs of vectors of
\* the same length.
C16_SymmetricEqualLength ==
  (cos.pc = "done" /\ Len(cos.a) = Len(cos.b)) => ScoreEq(cos.ab, cos.ba)

C16_Witness ==
  /\ cos.pc = "done"
  /\ cos.a = <<1, 2>> /\ cos.b = <<2, 2>>
  /\ cos.ab.num # 0
  /\ ScoreEq(cos.ab, cos.ba)

\* lengths 1 and 2: 1/sqrt(2) one way, NaN the other
C16_WitnessLengthsDiffer ==
  /\ cos.pc = "done"
  /\ cos.a = <<1>> /\ cos.b = <<1, 1>>
  /\ cos.ab.num = 1 /\ cos.ab.den2 = 2
  /\ IsNaN(cos.ba)

\* ---- C17
StepOrder == <<"moderations", "embeddings", "chat">>
Issued(api) == CallsTo(api) # {}

CallsInOrder ==
  /\ Len(chat.calls) <= Len(StepOrder)
  /\ \A i \in 1..Len(chat.calls) : chat.calls[i].api = StepOrder[i]
  /\ chat.reads <= 1
  /\ Issued("embeddings") => chat.moderation.state \in {"returned", "threw"}
  /\ chat.reads = 1 => (Issued("embeddings") /\ chat.retrieval \in {"ok", "read_threw"})
  /\ chat.retrieval = "embed_threw" => chat.reads = 0
  /\ Issued("chat") => chat.retrieval \in {"ok", "read_threw", "embed_threw"}

\* within a request a call once issued stays as it was, and the store is read once
CallsOnlyAppended ==
  chat.pc # "idle" =>
    /\ Len(chat'.calls) >= Len(chat.calls)
    /\ SubSeq(chat'.calls, 1, Len(chat.calls)) = chat.calls
    /\ chat'.reads >= chat.reads

\* C17: within a chat request the calls are issued in the order moderation, embedding,
\* model, each at most once: the embedding call after the moderation call returned or
\* threw, the store read after the embedding call returned, the model call after the
\* retrieval ended either way; nothing is issued again.
C17_FixedOrderOnce == []CallsInOrder /\ [][CallsOnlyAppended]_vars

\* all three calls issued and the store read, after a failed moderation call
C17_Witness ==
  /\ Answered
  /\ Len(chat.calls) = 3
  /\ chat.moderation.state = "threw"
  /\ chat.reads = 1
  /\ chat.retrieval = "ok"

\* ---- C18
\* every stored document stays, unmodified and in its place
StoreOnlyGrows ==
  /\ Len(documents') >= Len(documents)
  /\ SubSeq(documents', 1, Len(documents)) = documents

\* a step of a list or chat request leaves the store as it is
ReadsLeaveStore ==
  (list' # list \/ chat' # chat) => documents' = documents

\* C18: in every interleaving of add, list and chat requests the store only grows: a
\* document once created is never modified or removed, and the steps of list and chat
\* requests, successful or failed, leave the stored documents unchanged.
C18_StoreOnlyGrows == [][StoreOnlyGrows /\ ReadsLeaveStore]_vars

\* two documents stored in different seconds, a failed list and an answered chat
C18_Witness ==
  /\ Len(documents) = 2
  /\ documents[1].created_at < documents[2].created_at
  /\ list.pc = "done" /\ list.responses[1].status = 500
  /\ Answered

\* ---- C19
\* a response is sent exactly when the handler is over, and never a second one
OneResponseWhenDone ==
  /\ Len(chat.responses) <= 1
  /\ (chat.pc = "done") <=> (Len(chat.responses) = 1)

\* once it has answered, the request does nothing more
NothingAfterResponse == chat.responses # <<>> => chat' = chat

\* C19: a chat request sends exactly one response on every path: if every outbound call
\* eventually returns or throws the request is eventually answered, and after its
\* response (credential error, validation error, moderation rejection, reply or
\* internal error) it sends no other.
C19_ExactlyOneResponse ==
  /\ []OneResponseWhenDone
  /\ [][NothingAfterResponse]_vars
  /\ (chat.pc # "idle") ~> Answered

\* the longest path: all three calls made, the model call threw, 500 sent
C19_Witness ==
  /\ Answered
  /\ chat.model = "threw"
  /\ Response.status = 500
  /\ Len(chat.calls) = 3

\* ---- C20
AddAnswered == add.pc = "done" /\ Len(add.responses) = 1
AddResponse == add.responses[1]

AddResponsesRight ==
  AddAnswered =>
    /\ add.embedding = "threw" =>
         (AddResponse.status = 500 /\ AddResponse.details /\ ~AddResponse.ok)
    /\ AddResponse.ok =>
         /\ add.embedding = "returned" /\ add.insert = "ok"
         /\ \E j \in 1..Len(documents) : documents[j].id = AddResponse.id

RowOnlyAfterEmbedding ==
  /\ (add.pc = "embedding" /\ add'.embedding = "threw") => documents' = documents
  /\ documents' # documents =>
       /\ add.pc = "embedding"
       /\ add'.embedding = "returned" /\ add'.insert = "ok"
       /\ Len(documents') = Len(documents) + 1
       /\ add'.responses[1].ok /\ add'.responses[1].id = documents'[Len(documents')].id

\* C20: an add whose embedding call fails is answered 500 with details and inserts no
\* row; a row is inserted only when the embedding call has returned, and the ok
\* response with the new id is sent only when the insert has succeeded.
C20_AddFailureNoRow == []AddResponsesRight /\ [][RowOnlyAfterEmbedding]_vars

\* a failed embedding call after an add that succeeded: one row, 500 with details
C20_Witness ==
  /\ AddAnswered
  /\ add.embedding = "threw"
  /\ AddResponse.status = 500 /\ AddResponse.details
  /\ Len(documents) = 1

C20_WitnessInsertFailed ==
  /\ AddAnswered
  /\ add.embedding = "returned" /\ add.insert = "threw"
  /\ AddResponse.status = 500
  /\ documents = <<>>

====
